---- MODULE Spec2Model ----
(***************************************************************************)
(* Model of services/shopping_cart_service.py (ShoppingCartService).       *)
(*                                                                         *)
(* The relational store is modelled as committed tables (carts, lines)     *)
(* plus, for each add_to_cart call in progress, the uncommitted writes of  *)
(* its transaction.  add_to_cart is modelled step by step, one step per    *)
(* await on an external collaborator, so that calls interleave as the      *)
(* event loop lets them.  Money is counted in cents.                       *)
(***************************************************************************)
EXTENDS Integers, Sequences, FiniteSets, TLC

\* ------------------------------------------------------------- bounds
MaxCalls == 2      \* add_to_cart calls that may be in progress at once
MaxItems == 2      \* items of one add_to_cart request
MaxQty == 2        \* largest requested quantity
MaxStock == 2      \* largest onStock the stock source answers
RandSteps == 1     \* random.uniform draws: RandSteps + 1 evenly spaced points

Calls == 1..MaxCalls
Users == {"alice", "bob"}

\* ------------------------------------------------------------ catalog
\* The products table: product_id -> row (read-only for this service).
Catalog ==
    [tomato |-> [product_name |-> "Tomato", is_vip |-> FALSE],
     caviar |-> [product_name |-> "Caviar", is_vip |-> TRUE]]

Products == DOMAIN Catalog

\* Names a request may carry; " " is blank after strip().
NameInputs == {" ", "Tomatoe", "Caviar"}

\* str.strip() on the names above.
Strip(name) == IF name = " " THEN "" ELSE name

\* SIMILARITY(product_name, %s) in tenths, on the names above.
Similarity(product_name, name) ==
    CASE product_name = "Tomato" /\ name = "Tomatoe" -> 7
      [] product_name = "Caviar" /\ name = "Caviar" -> 10
      [] OTHER -> 0

\* SIMILARITY(...) > 0.3, in tenths.
SimThreshold == 3

\* Mutant: the query without the is_vip condition.
SearchRows_unfenced(name, user_is_vip) ==
    {p \in Products :
        Similarity(Catalog[p].product_name, name) > SimThreshold}

\* The rows the fenced query selects.
SearchRows(name, user_is_vip) ==
    {p \in Products :
        /\ (Catalog[p].is_vip = FALSE \/ user_is_vip = TRUE)
        /\ Similarity(Catalog[p].product_name, name) > SimThreshold}

NoProduct == [found |-> FALSE, product_id |-> "", product_name |-> "",
              category |-> ""]

\* _search_product: ORDER BY sim DESC LIMIT 1; category is the literal 'Unknown'.
search_product(name, user_is_vip) ==
    LET rows == SearchRows(name, user_is_vip)
    IN IF rows = {} THEN NoProduct
       ELSE LET best == CHOOSE p \in rows : \A q \in rows :
                    Similarity(Catalog[p].product_name, name)
                        >= Similarity(Catalog[q].product_name, name)
            IN [found |-> TRUE, product_id |-> best,
                product_name |-> Catalog[best].product_name,
                category |-> "Unknown"]

\* ------------------------------------------------------------ pricing
\* (min, max) in cents.
PRICE_RANGES ==
    [Vegetables |-> <<200, 800>>, Fruits |-> <<300, 1000>>,
     Dairy |-> <<100, 500>>, Meat |-> <<800, 2500>>,
     Bakery |-> <<200, 600>>, Seafood |-> <<1000, 3000>>,
     Beverages |-> <<150, 800>>, Grains |-> <<150, 600>>,
     Snacks |-> <<200, 800>>, Condiments |-> <<150, 700>>]

DEFAULT_PRICE_RANGE == <<200, 1000>>

\* The draws of random.uniform: point r of RandSteps + 1 evenly spaced ones.
RandDraws == 0..RandSteps

\* _generate_price: the range of the category, a draw in it, rounded to cents.
generate_price(category, r) ==
    LET range == IF category \in DOMAIN PRICE_RANGES
                 THEN PRICE_RANGES[category] ELSE DEFAULT_PRICE_RANGE
    IN range[1] + (r * (range[2] - range[1])) \div RandSteps

\* -------------------------------------------------------------- stock
\* Python's None (a JSON null), kept apart from the numbers the stock source
\* answers, which are 0 or more.
None == -1

\* What the POST to /stock may produce: "error" stands for a transport error,
\* an HTTP error status or a body that is not JSON; an "ok" answer may have no
\* entry, an entry with a number, or an entry whose onStock is null.
StockResponses ==
    {[status |-> "error", items |-> <<>>], [status |-> "ok", items |-> <<>>]}
    \cup {[status |-> "ok", items |-> <<[onStock |-> n]>>] : n \in 0..MaxStock}
    \cup {[status |-> "ok", items |-> <<[onStock |-> None]>>]}

\* _get_stock_quantity: 0 on any error or empty answer, else the onStock of
\* the first entry as it came.
get_stock_quantity(resp) ==
    IF resp.status # "ok" THEN 0
    ELSE IF Len(resp.items) > 0 THEN resp.items[1].onStock ELSE 0

\* History: the lookup that got resp failed (transport error, missing entry,
\* malformed entry).
stock_failure(resp) ==
    \/ resp.status # "ok"
    \/ Len(resp.items) = 0
    \/ resp.items[1].onStock = None

\* quantity > available_stock raises TypeError when available_stock is None.
compare_raises(available_stock) == available_stock = None

\* History: what a call read from the stock source for product_id.
StockReadOf(product_id, resp) ==
    [product_id |-> product_id,
     available_stock |-> get_stock_quantity(resp),
     failure |-> stock_failure(resp)]

\* ------------------------------------------------------ store records
NoLine == [present |-> FALSE, quantity |-> 0, unit_price |-> 0]

Line(q, price) == [present |-> TRUE, quantity |-> q, unit_price |-> price]

NoCart == [cart |-> FALSE, lines |-> [p \in Products |-> NoLine]]

NoItem == [product_name |-> "", quantity |-> 0]

\* The frame of an add_to_cart call.  n is the number of items of the request
\* the loop has taken and item the one it is at; txCart, txTouched and txLines
\* are the rows its open transaction has written.  History: before is the
\* user's committed cart when the call was made, reads the stock quantities
\* the call has read, in order, and overtaken tells that another call of the
\* same user has ended after its commit while this one was under way.
IdleCall ==
    [pc |-> "idle", user |-> "", vip |-> FALSE, n |-> 0, item |-> NoItem,
     product |-> NoProduct, txCart |-> FALSE, txTouched |-> {},
     txLines |-> [p \in Products |-> NoLine],
     added_items |-> <<>>, failed_items |-> <<>>, before |-> NoCart,
     reads |-> <<>>, overtaken |-> FALSE]

NoLast == [op |-> "none", user |-> "", product_id |-> "", quantity |-> 0,
           before |-> NoCart, reads |-> <<>>,
           result |-> [success |-> FALSE]]

\* What update_cart_item may be handed as product_id: "not-a-uuid" is malformed.
PidInputs == Products \cup {"not-a-uuid"}

\* UUID(product_id) does not raise ValueError.
IsUuid(product_id) == product_id # "not-a-uuid"

VARIABLES
    carts,        \* shopping_carts: the users that have a committed cart row
    lines,        \* shopping_cart_items, committed: lines[user][product]
    call,         \* the add_to_cart calls in progress: call[c] is a frame
    last,         \* the call that returned last, and what it returned
    firstPrice,   \* history: the unit price of the first committed add, per line
    tracking      \* whether firstPrice is being recorded in this behaviour

vars == <<carts, lines, call, last, firstPrice, tracking>>

Init ==
    /\ carts = {}
    /\ lines = [u \in Users |-> [p \in Products |-> NoLine]]
    /\ call = [c \in Calls |-> IdleCall]
    /\ last = NoLast
    /\ firstPrice = [u \in Users |-> [p \in Products |-> 0]]
    /\ tracking = FALSE

\* The same, with the history of first prices recorded.
InitTracking ==
    /\ carts = {}
    /\ lines = [u \in Users |-> [p \in Products |-> NoLine]]
    /\ call = [c \in Calls |-> IdleCall]
    /\ last = NoLast
    /\ firstPrice = [u \in Users |-> [p \in Products |-> 0]]
    /\ tracking = TRUE

\* The user's committed cart.
CartOf(u) == [cart |-> u \in carts, lines |-> lines[u]]

\* ------------------------------------------------- store, transactions
\* The states of add_to_cart in which its connection's transaction is open.
InTx == {"loop", "search", "stock"}

\* Call c holds the row lock of u's shopping_carts row (taken by the upsert
\* of lines 194-202, kept until the transaction ends).
HoldsCart(c, u) == call[c].pc \in InTx /\ call[c].user = u

\* The line (cart of fr.user, p) as the transaction of frame fr reads it:
\* its own write if it has written the row, else the committed row.
TxView(fr, p) == IF p \in fr.txTouched THEN fr.txLines[p] ELSE lines[fr.user][p]

\* A committed line of u that an open add_to_cart transaction has written is
\* row-locked: a DELETE or UPDATE of it waits for that transaction to end.
RowLocked(u, p) ==
    /\ lines[u][p].present
    /\ \E c \in Calls : HoldsCart(c, u) /\ p \in call[c].txTouched

\* Mutant: the conflict branch also takes the price of the new row.
upsert_line_reprices(old, quantity, unit_price) ==
    IF old.present
    THEN [old EXCEPT !.quantity = @ + quantity, !.unit_price = unit_price]
    ELSE Line(quantity, unit_price)

\* Mutant: the conflict branch stores the new quantity instead of adding it.
upsert_line_overwrites(old, quantity, unit_price) ==
    IF old.present THEN [old EXCEPT !.quantity = quantity]
    ELSE Line(quantity, unit_price)

\* INSERT ... ON CONFLICT (cart_id, product_id) DO UPDATE SET quantity =
\* quantity + EXCLUDED.quantity RETURNING quantity, unit_price.
upsert_line(old, quantity, unit_price) ==
    IF old.present THEN [old EXCEPT !.quantity = @ + quantity]
    ELSE Line(quantity, unit_price)

\* Mutant: the UPDATE also resets the price column.
set_quantity_reprices(old, quantity) ==
    IF old.present THEN [old EXCEPT !.quantity = quantity, !.unit_price = 0]
    ELSE old

\* Mutant: the UPDATE inserts the row when there is none.
set_quantity_upserts(old, quantity) ==
    IF old.present THEN [old EXCEPT !.quantity = quantity]
    ELSE Line(quantity, DEFAULT_PRICE_RANGE[1])

\* UPDATE shopping_cart_items SET quantity = %s WHERE cart_id, product_id.
set_quantity(old, quantity) ==
    IF old.present THEN [old EXCEPT !.quantity = quantity] ELSE old

\* Mutant: the DELETE matches no row.
delete_line_misses(old) == old

\* DELETE FROM shopping_cart_items WHERE cart_id, product_id.
delete_line(old) == NoLine

\* conn.commit(): the rows the transaction wrote replace the committed ones.
commit_lines(fr) ==
    [p \in Products |-> IF p \in fr.txTouched THEN fr.txLines[p]
                        ELSE lines[fr.user][p]]

\* Leaving the connection block on an exception: the transaction rolls back.
rollback_lines(fr) == lines[fr.user]

\* ------------------------------------------------------------ get_cart
\* Mutant: the join with products applies the visibility fence of the search.
CartRows_fenced(u) ==
    {p \in Products : u \in carts /\ lines[u][p].present /\ ~Catalog[p].is_vip}

\* The rows of the SELECT: the user's cart joined with its lines and products.
CartRows(u) ==
    {p \in Products : u \in carts /\ lines[u][p].present /\ p \in DOMAIN Catalog}

\* The rows as the cursor yields them (the order among them is not modelled).
RECURSIVE RowSeq(_)
RowSeq(S) ==
    IF S = {} THEN <<>>
    ELSE LET p == CHOOSE x \in S : TRUE IN <<p>> \o RowSeq(S \ {p})

\* The loop over rows of get_cart, from row i on.
RECURSIVE cart_loop(_, _, _, _, _)
cart_loop(u, rows, i, stockOf, acc) ==
    IF i > Len(rows) THEN acc
    ELSE LET p == rows[i]
             row == lines[u][p]
             item == [product_id |-> p,
                      product_name |-> Catalog[p].product_name,
                      quantity |-> row.quantity,
                      unit_price |-> row.unit_price,
                      total_price |-> row.quantity * row.unit_price,
                      available_stock |-> get_stock_quantity(stockOf[p])]
         IN cart_loop(u, rows, i + 1, stockOf,
                      [items |-> Append(acc.items, item),
                       total_items |-> acc.total_items + row.quantity,
                       total_price |-> acc.total_price + item.total_price,
                       currency |-> "EUR"])

get_cart(u, stockOf) ==
    cart_loop(u, RowSeq(CartRows(u)), 1, stockOf,
              [items |-> <<>>, total_items |-> 0, total_price |-> 0,
               currency |-> "EUR"])

NoStock == [p \in Products |-> [status |-> "error", items |-> <<>>]]

\* --------------------------------------------------------- add_to_cart
\* Mutant: break instead of continue.
fail_item_breaks(fr, entry) ==
    [fr EXCEPT !.failed_items = Append(@, entry), !.pc = "loop",
               !.n = MaxItems, !.item = NoItem, !.product = NoProduct]

\* Mutant: the item is skipped without being recorded.
fail_item_drops(fr, entry) ==
    [fr EXCEPT !.pc = "loop", !.item = NoItem, !.product = NoProduct]

\* failed_items.append(entry); continue
fail_item(fr, entry) ==
    [fr EXCEPT !.failed_items = Append(@, entry), !.pc = "loop",
               !.item = NoItem, !.product = NoProduct]

\* Lines 216-237: the item's name and quantity are validated.
validate_item(fr, name, quantity) ==
    LET product_name == Strip(name)
        f == [fr EXCEPT !.n = @ + 1,
                        !.item = [product_name |-> product_name,
                                  quantity |-> quantity]]
    IN IF product_name = ""
       THEN fail_item(f, [product_name |-> product_name,
                          error |-> <<"Product name is required">>])
       ELSE IF quantity <= 0
       THEN fail_item(f, [product_name |-> product_name,
                          error |-> <<"Quantity must be positive">>])
       ELSE [f EXCEPT !.pc = "search"]

\* Lines 240-254: the answer of _search_product.
resolve_item(fr, product) ==
    IF ~product.found
    THEN fail_item(fr, [product_name |-> fr.item.product_name,
                        error |-> <<"Product not found">>,
                        requested_quantity |-> fr.item.quantity])
    ELSE [fr EXCEPT !.product = product, !.pc = "stock"]

\* Lines 258-268: the requested quantity exceeds the stock read.
insufficient_stock(fr, available_stock) ==
    fail_item(fr, [product_name |-> fr.product.product_name,
                   product_id |-> fr.product.product_id,
                   requested_quantity |-> fr.item.quantity,
                   available_stock |-> available_stock,
                   error |-> <<"Insufficient stock (only", available_stock,
                               "available)">>])

\* Mutant: the re-check lets one unit too many through.
exceeds_stock_lenient(final_quantity, available_stock) ==
    final_quantity > available_stock + 1

\* Lines 292-311: the re-check of the stock after the upsert.
exceeds_stock(final_quantity, available_stock) ==
    final_quantity > available_stock

\* Lines 313-321: the entry of added_items.
added_entry(product, quantity, final_price, final_quantity) ==
    [product_id |-> product.product_id,
     product_name |-> product.product_name,
     quantity |-> quantity,
     unit_price |-> final_price,
     total_price |-> final_price * final_quantity]

\* Lines 270-321: price, upsert, re-check and clamp, added_items.append.
write_item(fr, available_stock, unit_price) ==
    LET pid == fr.product.product_id
        quantity == fr.item.quantity
        up == upsert_line(TxView(fr, pid), quantity, unit_price)
        final_price == up.unit_price
        exceeded == exceeds_stock(up.quantity, available_stock)
        stored == IF exceeded THEN set_quantity(up, available_stock) ELSE up
        final_quantity == IF exceeded THEN available_stock ELSE up.quantity
        reduced == [product_name |-> fr.product.product_name,
                    product_id |-> pid,
                    requested_quantity |-> quantity,
                    available_stock |-> available_stock,
                    error |-> <<"Reduced quantity to available stock (",
                                available_stock, ")">>]
    IN [fr EXCEPT !.txLines[pid] = stored,
                  !.txTouched = @ \cup {pid},
                  !.failed_items = IF exceeded THEN Append(@, reduced) ELSE @,
                  !.added_items = Append(@, added_entry(fr.product, quantity,
                                               final_price, final_quantity)),
                  !.pc = "loop", !.item = NoItem, !.product = NoProduct]

\* Mutant: the stock check is off by one.
settle_item_off_by_one(fr, available_stock, unit_price) ==
    IF fr.item.quantity > available_stock + 1
    THEN insufficient_stock(fr, available_stock)
    ELSE write_item(fr, available_stock, unit_price)

\* Lines 257-321: the stock answer arrives and the item is settled.
settle_item(fr, available_stock, unit_price) ==
    IF fr.item.quantity > available_stock
    THEN insufficient_stock(fr, available_stock)
    ELSE write_item(fr, available_stock, unit_price)

\* What the call hands back (or that it raised), with its history.
AddResult(fr, result) ==
    [op |-> "add_to_cart", user |-> fr.user, product_id |-> "",
     quantity |-> 0, before |-> fr.before, reads |-> fr.reads,
     result |-> result]

\* add_to_cart is called (lines 163-191): the call connects to the store.
AddCall(c, u, vip) ==
    /\ call[c].pc = "idle"
    /\ call' = [call EXCEPT ![c] =
                  [IdleCall EXCEPT !.pc = "connect", !.user = u, !.vip = vip,
                                   !.before = CartOf(u)]]
    /\ last' = NoLast
    /\ UNCHANGED <<carts, lines, firstPrice, tracking>>

\* Mutant: the upsert of the cart row waits for nobody.
cart_row_free_always(u) == TRUE

\* The cart row of u is free: no open transaction has written it.
cart_row_free(u) == \A d \in Calls : ~HoldsCart(d, u)

\* Lines 193-204: the upsert of the user's cart row.  It waits while another
\* transaction holds the row (or its index entry).
AddBegin(c) ==
    /\ call[c].pc = "connect"
    /\ cart_row_free(call[c].user)
    /\ call' = [call EXCEPT ![c] =
                  [@ EXCEPT !.pc = "loop",
                            !.txCart = (call[c].user \notin carts)]]
    /\ UNCHANGED <<carts, lines, last, firstPrice, tracking>>

\* Lines 215-242: the next item of the request is taken and validated; a valid
\* one sends the catalog query.
AddNextItem(c, name, quantity) ==
    /\ call[c].pc = "loop"
    /\ call[c].n < MaxItems
    /\ call' = [call EXCEPT ![c] = validate_item(@, name, quantity)]
    /\ UNCHANGED <<carts, lines, last, firstPrice, tracking>>

\* Lines 240-257: the catalog answers; a found product sends the stock request.
AddSearchReply(c) ==
    /\ call[c].pc = "search"
    /\ call' = [call EXCEPT ![c] =
                  resolve_item(@, search_product(@.item.product_name, @.vip))]
    /\ UNCHANGED <<carts, lines, last, firstPrice, tracking>>

\* Lines 257-321: the stock source answers (or fails).  When the lookup hands
\* back None the comparison of line 258 raises: the exception leaves the
\* connection block, the transaction rolls back and the call raises.
AddStockReply(c, resp, r) ==
    LET available_stock == get_stock_quantity(resp)
        unit_price == generate_price(call[c].product.category, r)
        fr == [call[c] EXCEPT !.reads =
                  Append(@, StockReadOf(call[c].product.product_id, resp))]
    IN
    /\ call[c].pc = "stock"
    /\ IF compare_raises(available_stock)
       THEN /\ lines' = [lines EXCEPT ![fr.user] = rollback_lines(fr)]
            /\ last' = AddResult(fr, [raised |-> TRUE, success |-> FALSE])
            /\ call' = [call EXCEPT ![c] = IdleCall]
       ELSE /\ call' = [call EXCEPT ![c] =
                          settle_item(fr, available_stock, unit_price)]
            /\ UNCHANGED <<lines, last>>
    /\ UNCHANGED <<carts, firstPrice, tracking>>

\* Line 323: the loop has ended; conn.commit().
AddCommit(c) ==
    LET fr == call[c] IN
    /\ fr.pc = "loop"
    /\ carts' = carts \cup {fr.user}
    /\ lines' = [lines EXCEPT ![fr.user] = commit_lines(fr)]
    /\ firstPrice' = [firstPrice EXCEPT ![fr.user] =
          [p \in Products |->
             IF tracking /\ @[p] = 0 /\ p \in fr.txTouched
             THEN fr.txLines[p].unit_price ELSE @[p]]]
    /\ call' = [call EXCEPT ![c] =
                  [fr EXCEPT !.pc = "summary", !.txCart = FALSE,
                             !.txTouched = {}, !.txLines = IdleCall.txLines]]
    /\ UNCHANGED <<last, tracking>>

\* The catalog query or a store statement raises inside the connection block
\* (lines 191-323): the exception leaves the block and propagates.
AddRaise(c) ==
    LET fr == call[c] IN
    /\ fr.pc \in InTx
    /\ lines' = [lines EXCEPT ![fr.user] = rollback_lines(fr)]
    /\ last' = AddResult(fr, [raised |-> TRUE, success |-> FALSE])
    /\ call' = [call EXCEPT ![c] = IdleCall]
    /\ UNCHANGED <<carts, firstPrice, tracking>>

\* Call c, which has committed, ends: its frame is gone, and the calls of the
\* same user still under way have been overtaken by it.
leave_committed(c) ==
    [d \in Calls |->
       IF d = c THEN IdleCall
       ELSE IF call[d].pc # "idle" /\ call[d].user = call[c].user
            THEN [call[d] EXCEPT !.overtaken = TRUE]
            ELSE call[d]]

\* Line 326: get_cart raises (its connection or its query fails).
AddSummaryRaise(c) ==
    /\ call[c].pc = "summary"
    /\ last' = AddResult(call[c], [raised |-> TRUE, success |-> FALSE])
    /\ call' = leave_committed(c)
    /\ UNCHANGED <<carts, lines, firstPrice, tracking>>

\* Lines 326-334: the summary is read and the result returned.
AddReturn(c) ==
    LET fr == call[c]
        cart_summary == get_cart(fr.user, NoStock)
    IN
    /\ fr.pc = "summary"
    /\ last' = AddResult(fr,
                  [raised |-> FALSE,
                   success |-> Len(fr.failed_items) = 0,
                   added_items |-> fr.added_items,
                   failed_items |-> fr.failed_items,
                   cart_total |-> cart_summary.total_price,
                   total_items |-> cart_summary.total_items])
    /\ call' = leave_committed(c)
    /\ UNCHANGED <<carts, lines, firstPrice, tracking>>

\* ----------------------------------------- get, update, remove, clear
\* What a call that is one step hands back (or that it raised), with its
\* history.
OpResult(op, u, product_id, quantity, reads, result) ==
    [op |-> op, user |-> u, product_id |-> product_id, quantity |-> quantity,
     before |-> CartOf(u), reads |-> reads, result |-> result]

\* History: the stock lookups of get_cart, one per row, from row i on.
RECURSIVE cart_reads(_, _, _)
cart_reads(rows, i, stockOf) ==
    IF i > Len(rows) THEN <<>>
    ELSE <<StockReadOf(rows[i], stockOf[rows[i]])>>
            \o cart_reads(rows, i + 1, stockOf)

GetCart(u, stockOf) ==
    /\ last' = OpResult("get_cart", u, "", 0,
                        cart_reads(RowSeq(CartRows(u)), 1, stockOf),
                        get_cart(u, stockOf))
    /\ UNCHANGED <<carts, lines, call, firstPrice, tracking>>

\* Mutant: no stock check.
update_precheck_no_stock(product_id, quantity, available_stock) ==
    IF ~IsUuid(product_id)
    THEN [success |-> FALSE, error |-> <<"Invalid product ID">>]
    ELSE IF quantity < 0
    THEN [success |-> FALSE, error |-> <<"Quantity cannot be negative">>]
    ELSE IF quantity > 0 /\ compare_raises(available_stock)
    THEN [success |-> FALSE, raised |-> TRUE]
    ELSE [success |-> TRUE]

\* Mutant: the sign of the quantity is checked before the product id.
update_precheck_negative_first(product_id, quantity, available_stock) ==
    IF quantity < 0
    THEN [success |-> FALSE, error |-> <<"Quantity cannot be negative">>]
    ELSE IF ~IsUuid(product_id)
    THEN [success |-> FALSE, error |-> <<"Invalid product ID">>]
    ELSE IF quantity > 0 /\ compare_raises(available_stock)
    THEN [success |-> FALSE, raised |-> TRUE]
    ELSE IF quantity > 0 /\ quantity > available_stock
    THEN [success |-> FALSE,
          error |-> <<"Insufficient stock (only", available_stock, "available)">>,
          available_stock |-> available_stock]
    ELSE [success |-> TRUE]

\* What update_cart_item returns before it opens a connection, if it does
\* (lines 415-431); success there means it goes on to the store.
update_precheck(product_id, quantity, available_stock) ==
    IF ~IsUuid(product_id)
    THEN [success |-> FALSE, error |-> <<"Invalid product ID">>]
    ELSE IF quantity < 0
    THEN [success |-> FALSE, error |-> <<"Quantity cannot be negative">>]
    ELSE IF quantity > 0 /\ compare_raises(available_stock)
    THEN [success |-> FALSE, raised |-> TRUE]
    ELSE IF quantity > 0 /\ quantity > available_stock
    THEN [success |-> FALSE,
          error |-> <<"Insufficient stock (only", available_stock, "available)">>,
          available_stock |-> available_stock]
    ELSE [success |-> TRUE]

\* Lines 415-425: update_cart_item gets as far as the stock lookup.
update_looks_up(product_id, quantity) ==
    IsUuid(product_id) /\ quantity > 0

\* Mutant: quantity 0 is written like any other quantity.
update_line_keeps_zero(old, quantity) == set_quantity(old, quantity)

\* Lines 445-463: the statement update_cart_item runs on the line.
update_line(old, quantity) ==
    IF quantity = 0 THEN delete_line(old) ELSE set_quantity(old, quantity)

\* update_cart_item, lines 415-468.  Its transaction is one statement and a
\* commit with no await on an external collaborator in between, so it is one
\* step; the statement waits while the row is locked.  The cart summary of a
\* successful result is a separate get_cart (GetCart).
update_cart_item(op, u, product_id, quantity, resp) ==
    LET pre == update_precheck(product_id, quantity, get_stock_quantity(resp))
        reads == IF update_looks_up(product_id, quantity)
                 THEN <<StockReadOf(product_id, resp)>> ELSE <<>>
        result == IF ~pre.success THEN pre
                  ELSE IF u \notin carts
                  THEN [success |-> FALSE, error |-> <<"Cart not found">>]
                  ELSE [success |-> TRUE]
    IN
    /\ result.success => ~RowLocked(u, product_id)
    /\ lines' = IF result.success
                THEN [lines EXCEPT ![u][product_id] = update_line(@, quantity)]
                ELSE lines
    /\ last' = OpResult(op, u, product_id, quantity, reads, result)
    /\ UNCHANGED <<carts, call, firstPrice, tracking>>

UpdateCartItem(u, product_id, quantity, resp) ==
    update_cart_item("update_cart_item", u, product_id, quantity, resp)

\* remove_from_cart, line 480.
RemoveFromCart(u, product_id) ==
    update_cart_item("remove_from_cart", u, product_id, 0, NoStock.tomato)

\* Mutant: the DELETE reaches only the lines of unrestricted products.
clear_lines_fenced(u) ==
    [p \in Products |-> IF u \in carts /\ ~Catalog[p].is_vip
                        THEN delete_line(lines[u][p]) ELSE lines[u][p]]

\* DELETE FROM shopping_cart_items WHERE cart_id IN (the carts of the user).
clear_lines(u) ==
    [p \in Products |-> IF u \in carts THEN delete_line(lines[u][p])
                        ELSE lines[u][p]]

\* clear_cart, lines 491-504: one DELETE and a commit.
ClearCart(u) ==
    /\ \A p \in Products : ~RowLocked(u, p)
    /\ lines' = [lines EXCEPT ![u] = clear_lines(u)]
    /\ last' = OpResult("clear_cart", u, "", 0, <<>>,
                        [success |-> TRUE, message |-> "Cart cleared"])
    /\ UNCHANGED <<carts, call, firstPrice, tracking>>

\* ------------------------------------------------------ specification
QuantityInputs == 0..MaxQty

UpdateQuantities == -1..MaxQty

\* No add_to_cart call is in progress.
Quiet == \A c \in Calls : call[c].pc = "idle"

\* The stock source is asked only about the rows of the cart, so only their
\* answers are inputs of get_cart.
AnswersRows(u, stockOf) ==
    \A p \in Products \ CartRows(u) : stockOf[p] = NoStock[p]

\* Likewise the answer is an input of update_cart_item only if it looks up.
AnswersUpdate(product_id, quantity, resp) ==
    update_looks_up(product_id, quantity) \/ resp = NoStock.tomato

\* The users that add to their cart in the behaviours of Spec.
Shoppers == {"alice"}

\* Calls made one after the other: a call is issued when the one before it
\* has returned.
Next ==
    \/ \E u \in Shoppers, vip \in BOOLEAN : Quiet /\ AddCall(1, u, vip)
    \/ AddBegin(1)
    \/ \E name \in NameInputs, q \in QuantityInputs : AddNextItem(1, name, q)
    \/ AddSearchReply(1)
    \/ \E resp \in StockResponses, r \in RandDraws : AddStockReply(1, resp, r)
    \/ AddCommit(1)
    \/ AddRaise(1)
    \/ AddSummaryRaise(1)
    \/ AddReturn(1)
    \/ \E u \in Users, stockOf \in [Products -> StockResponses] :
          Quiet /\ AnswersRows(u, stockOf) /\ GetCart(u, stockOf)
    \/ \E u \in Users, pid \in PidInputs, q \in UpdateQuantities,
          resp \in StockResponses :
             Quiet /\ AnswersUpdate(pid, q, resp) /\ UpdateCartItem(u, pid, q, resp)
    \/ \E u \in Users, pid \in PidInputs : Quiet /\ RemoveFromCart(u, pid)
    \/ \E u \in Users : Quiet /\ ClearCart(u)

Spec == Init /\ [][Next]_vars

\* What the stock source answers in the behaviours of SpecConcurrent.
StockedResponses ==
    {[status |-> "ok", items |-> <<[onStock |-> n]>>] :
       n \in 1..(MaxStock + 1)}

\* Calls of add_to_cart in progress at once, all of one user and for one
\* product, interleaved in every way.
NextConcurrent ==
    \/ \E c \in Calls : AddCall(c, "alice", FALSE)
    \/ \E c \in Calls : AddBegin(c)
    \/ \E c \in Calls, q \in 1..MaxQty : AddNextItem(c, "Tomatoe", q)
    \/ \E c \in Calls : AddSearchReply(c)
    \/ \E c \in Calls, resp \in StockedResponses : AddStockReply(c, resp, 0)
    \/ \E c \in Calls : AddCommit(c)
    \/ \E c \in Calls : AddRaise(c)
    \/ \E c \in Calls : AddSummaryRaise(c)
    \/ \E c \in Calls : AddReturn(c)

SpecConcurrent == Init /\ [][NextConcurrent]_vars

\* The calls that write to the cart of a shopper, made one after the other.
NextTracking ==
    \/ \E u \in Shoppers, vip \in BOOLEAN : Quiet /\ AddCall(1, u, vip)
    \/ AddBegin(1)
    \/ \E name \in NameInputs, q \in QuantityInputs : AddNextItem(1, name, q)
    \/ AddSearchReply(1)
    \/ \E resp \in StockResponses, r \in RandDraws : AddStockReply(1, resp, r)
    \/ AddCommit(1)
    \/ AddRaise(1)
    \/ AddSummaryRaise(1)
    \/ AddReturn(1)
    \/ \E u \in Shoppers, pid \in PidInputs, q \in UpdateQuantities,
          resp \in StockResponses :
             Quiet /\ AnswersUpdate(pid, q, resp) /\ UpdateCartItem(u, pid, q, resp)
    \/ \E u \in Shoppers, pid \in PidInputs : Quiet /\ RemoveFromCart(u, pid)
    \/ \E u \in Shoppers : Quiet /\ ClearCart(u)

\* These behaviours with the history of first prices recorded.
SpecTracking == InitTracking /\ [][NextTracking]_vars

\* The stock source answers that the whole stock is there.
FullStock == [status |-> "ok", items |-> <<[onStock |-> MaxStock]>>]

\* Calls for both users and one product: add_to_cart calls in progress at
\* once, for the same user or not, and the other calls made in between.
NextTwoUsers ==
    \/ \E c \in Calls, u \in Users : AddCall(c, u, FALSE)
    \/ \E c \in Calls : AddBegin(c)
    \/ \E c \in Calls, q \in 1..MaxQty : AddNextItem(c, "Tomatoe", q)
    \/ \E c \in Calls : AddSearchReply(c)
    \/ \E c \in Calls : AddStockReply(c, FullStock, 0)
    \/ \E c \in Calls : AddCommit(c)
    \/ \E c \in Calls : AddRaise(c)
    \/ \E c \in Calls : AddSummaryRaise(c)
    \/ \E c \in Calls : AddReturn(c)
    \/ \E u \in Users : Quiet /\ UpdateCartItem(u, "tomato", 1, FullStock)
    \/ \E u \in Users : Quiet /\ RemoveFromCart(u, "tomato")
    \/ \E u \in Users : Quiet /\ ClearCart(u)

SpecTwoUsers == Init /\ [][NextTwoUsers]_vars

\* ------------------------------------------------------------- claims
\* In the behaviours of Spec a call is made when the one before it has
\* returned, so while last names a call the store is as that call left it and
\* last.before is the user's cart as the call found it.

AddReturned == last.op = "add_to_cart" /\ ~last.result.raised

Indices(seq) == 1..Len(seq)

ErrorText(entry) == entry.error[1]

RECURSIVE SumSet(_, _)
SumSet(S, f) ==
    IF S = {} THEN 0
    ELSE LET x == CHOOSE y \in S : TRUE IN f[x] + SumSet(S \ {x}, f)

\* The quantity the entries of added_items request of product p.
Requested(added_items, p) ==
    SumSet({i \in Indices(added_items) : added_items[i].product_id = p},
           [i \in Indices(added_items) |-> added_items[i].quantity])

\* C1: price pinning.  After add_to_cart returns, every line the cart held
\* before the call is still there with the unit price it had, and every entry
\* of added_items reports the unit price the line stores, so a line created
\* and added to again in one call keeps the price of its creation.
PricePinned ==
    AddReturned =>
        /\ \A p \in Products :
              last.before.lines[p].present =>
                 /\ lines[last.user][p].present
                 /\ lines[last.user][p].unit_price
                       = last.before.lines[p].unit_price
        /\ \A i \in Indices(last.result.added_items) :
              LET e == last.result.added_items[i] IN
              /\ lines[last.user][e.product_id].present
              /\ lines[last.user][e.product_id].unit_price = e.unit_price
              /\ \A j \in Indices(last.result.added_items) :
                    last.result.added_items[j].product_id = e.product_id
                       => last.result.added_items[j].unit_price = e.unit_price

\* C1 witness: a call has added to a line the cart already held.
PricePinnedWitness ==
    /\ AddReturned
    /\ \E i \in Indices(last.result.added_items) :
          LET p == last.result.added_items[i].product_id IN
          /\ last.before.lines[p].present
          /\ lines[last.user][p].quantity > last.before.lines[p].quantity

\* C2 as claimed: the unit price of a line is always the price of the first
\* committed add of that product to that cart, also after the product was
\* removed and added again.
PriceSetOnce ==
    \A u \in Users, p \in Products :
        lines[u][p].present => lines[u][p].unit_price = firstPrice[u][p]

\* C2 as amended: a step never changes the unit price of a line that exists
\* before and after it; only a line created anew (also one created again
\* after its removal) gets a price.
PriceKeptWhileLineExists ==
    [][\A u \in Users, p \in Products :
          (lines[u][p].present /\ lines'[u][p].present)
             => lines'[u][p].unit_price = lines[u][p].unit_price]_vars

\* C2 witness: a call has changed the quantity of a line that stays in the
\* cart, whose price is that of the first add.
PriceKeptWitness ==
    /\ last.op \in {"add_to_cart", "update_cart_item"}
    /\ \E p \in Products :
          /\ last.before.lines[p].present
          /\ lines[last.user][p].present
          /\ lines[last.user][p].quantity # last.before.lines[p].quantity
          /\ lines[last.user][p].unit_price = firstPrice[last.user][p]

\* C3: every committed cart line has a quantity above 0.
QuantityPositive ==
    \A u \in Users, p \in Products :
        lines[u][p].present => lines[u][p].quantity > 0

\* C3 witness: update_cart_item with quantity 0 has deleted a line.
QuantityPositiveWitness ==
    /\ last.op = "update_cart_item"
    /\ last.quantity = 0
    /\ last.result.success
    /\ last.before.lines[last.product_id].present
    /\ ~lines[last.user][last.product_id].present

\* The step of call c in which the stock answer arrives.
StockStep(c) == call[c].pc = "stock" /\ call'[c].pc = "loop"

\* The stock quantity read in that step.
StockRead(c) == call'[c].reads[Len(call'[c].reads)].available_stock

\* C4: an item that asks for more than the stock read writes no line, is
\* recorded in failed_items with "Insufficient stock" and the stock read, and
\* makes the call report success = false.
InsufficientStockRejected ==
    /\ [][\A c \in Calls :
            (StockStep(c) /\ call[c].item.quantity > StockRead(c)) =>
               /\ call'[c].txLines = call[c].txLines
               /\ call'[c].txTouched = call[c].txTouched
               /\ call'[c].added_items = call[c].added_items
               /\ lines' = lines
               /\ Len(call'[c].failed_items) = Len(call[c].failed_items) + 1
               /\ LET e == call'[c].failed_items[Len(call'[c].failed_items)] IN
                  /\ ErrorText(e) = "Insufficient stock (only"
                  /\ e.available_stock = StockRead(c)
                  /\ e.product_id = call[c].product.product_id
                  /\ e.requested_quantity = call[c].item.quantity]_vars
    /\ [](AddReturned =>
            ((\E i \in Indices(last.result.failed_items) :
                 ErrorText(last.result.failed_items[i])
                    = "Insufficient stock (only")
              => ~last.result.success))

\* C4 witness: a call whose only item asked for more than the stock has
\* returned; the cart is as it was.
InsufficientStockWitness ==
    /\ AddReturned
    /\ Len(last.result.failed_items) = 1
    /\ Len(last.result.added_items) = 0
    /\ ErrorText(last.result.failed_items[1]) = "Insufficient stock (only"
    /\ last.result.failed_items[1].available_stock = 0
    /\ lines[last.user] = last.before.lines
    /\ ~last.result.success

\* C5 as claimed: when every item of a call was accepted (no failure, no
\* clamp), each entry of added_items reports total_price = unit_price times
\* the requested quantity.
TotalIsPriceTimesRequested ==
    (AddReturned /\ last.result.success) =>
        \A i \in Indices(last.result.added_items) :
            LET e == last.result.added_items[i] IN
            e.total_price = e.unit_price * e.quantity

\* The sums over the lines the store holds for u.
StoredLines(u) == {p \in Products : lines[u][p].present}

StoredQuantity(u) ==
    SumSet(StoredLines(u), [p \in Products |-> lines[u][p].quantity])

StoredValue(u) ==
    SumSet(StoredLines(u),
           [p \in Products |-> lines[u][p].quantity * lines[u][p].unit_price])

\* C6: get_cart returns the lines the store holds for the user, once each,
\* total_items the sum of their quantities and total_price the sum of
\* quantity times unit price.
GetCartMatchesStore ==
    last.op = "get_cart" =>
        LET r == last.result IN
        /\ r.total_price = StoredValue(last.user)
        /\ r.total_items = StoredQuantity(last.user)
        /\ Len(r.items) = Cardinality(StoredLines(last.user))
        /\ {r.items[i].product_id : i \in Indices(r.items)}
              = StoredLines(last.user)
        /\ \A i \in Indices(r.items) :
              LET line == lines[last.user][r.items[i].product_id] IN
              /\ r.items[i].quantity = line.quantity
              /\ r.items[i].unit_price = line.unit_price
              /\ r.items[i].total_price = line.quantity * line.unit_price

\* C6 witness: get_cart has returned a cart of two lines.
GetCartWitness ==
    /\ last.op = "get_cart"
    /\ Len(last.result.items) = 2
    /\ last.result.total_items > 2

\* The product ids a get_cart of u lists now.
Listed(u) ==
    LET items == get_cart(u, NoStock).items
    IN {items[i].product_id : i \in Indices(items)}

\* C7: after update_cart_item(user, pid, 0) or remove_from_cart(user, pid)
\* with a well-formed pid the cart has no line for pid, get_cart does not list
\* pid, every other line and the cart row are as before, and both calls
\* return the same: success if the user has a cart, "Cart not found" if not.
RemovesLine ==
    ( /\ last.op \in {"update_cart_item", "remove_from_cart"}
      /\ last.quantity = 0
      /\ IsUuid(last.product_id) ) =>
        /\ ~lines[last.user][last.product_id].present
        /\ last.product_id \notin Listed(last.user)
        /\ \A p \in Products \ {last.product_id} :
              lines[last.user][p] = last.before.lines[p]
        /\ (last.user \in carts) = last.before.cart
        /\ last.result =
              IF last.before.cart THEN [success |-> TRUE]
              ELSE [success |-> FALSE, error |-> <<"Cart not found">>]

\* C7 witness: remove_from_cart has removed one of two lines.
RemovesLineWitness ==
    /\ last.op = "remove_from_cart"
    /\ last.result.success
    /\ last.before.lines[last.product_id].present
    /\ \E p \in Products \ {last.product_id} :
          lines[last.user][p].present
    /\ last.product_id \notin Listed(last.user)

\* The errors of the business rules that reject an item.
RejectionTexts ==
    {"Product name is required", "Quantity must be positive",
     "Product not found", "Insufficient stock (only"}

\* C8: items are processed independently.  A step of a call that rejects an
\* item (name, quantity, product not found, insufficient stock) changes no
\* row of the transaction and no committed row and returns to the loop with
\* the rest of the request still to be taken; and only a step that appends to
\* added_items writes rows, so the rows the other items write are those they
\* would write without the rejected item.
ItemsIndependent ==
    [][\A c \in Calls :
          LET f == call[c]
              g == call'[c]
              unwritten == /\ g.txLines = f.txLines
                           /\ g.txTouched = f.txTouched
                           /\ g.txCart = f.txCart
                           /\ lines' = lines
                           /\ carts' = carts
          IN
          /\ (f.pc \in InTx /\ g.pc \in InTx /\ g.added_items = f.added_items)
                => unwritten
          /\ (f.pc \in InTx /\ Len(g.failed_items) > Len(f.failed_items)
                /\ g.added_items = f.added_items)
                => /\ g.pc = "loop"
                   /\ g.n = (IF f.pc = "loop" THEN f.n + 1 ELSE f.n)
                   /\ g.user = f.user /\ g.vip = f.vip
                   /\ Len(g.failed_items) = Len(f.failed_items) + 1
                   /\ ErrorText(g.failed_items[Len(g.failed_items)])
                         \in RejectionTexts]_vars

\* C8 witness: a call whose first item was rejected (the stock read for it was
\* 0) and whose second item was added has returned.
ItemsIndependentWitness ==
    /\ AddReturned
    /\ Len(last.reads) = 2
    /\ last.reads[1].available_stock = 0
    /\ Len(last.result.failed_items) = 1
    /\ Len(last.result.added_items) = 1
    /\ LET p == last.result.added_items[1].product_id IN
       lines[last.user][p].quantity > last.before.lines[p].quantity

\* C9 as claimed: when add_to_cart raises, the user's cart row and lines are
\* as they were before the call.
RaisedCallLeavesNoTrace ==
    (last.op = "add_to_cart" /\ last.result.raised) =>
        CartOf(last.user) = last.before

\* The calls of u that have committed and not yet returned.
Committed(u) == {c \in Calls : call[c].pc = "summary" /\ call[c].user = u}

\* Two or more calls of u ran concurrently: all were made on the same cart,
\* all have committed, none has returned, and no other call committed to the
\* cart and ended in the meantime.
RanConcurrently(u) ==
    /\ Cardinality(Committed(u)) >= 2
    /\ \A c \in Committed(u) : ~call[c].overtaken
    /\ \A c, d \in Committed(u) : call[c].before = call[d].before

\* The quantity of p in the cart the concurrent calls of u were made on.
QuantityBefore(u, p) ==
    call[CHOOSE c \in Committed(u) : TRUE].before.lines[p].quantity

\* The quantity of p the concurrent calls of u requested together.
Combined(u, p) ==
    SumSet(Committed(u),
           [c \in Calls |-> Requested(call[c].added_items, p)])

\* Every stock quantity the concurrent calls of u read for p is at least k.
StockAtLeast(u, p, k) ==
    \A c \in Committed(u) : \A i \in Indices(call[c].reads) :
        call[c].reads[i].product_id = p
           => call[c].reads[i].available_stock >= k

\* C10 as claimed: after concurrent calls that each read a stock of at least
\* the combined requested quantity, the line holds the quantity before plus
\* the requested quantities.
NoLostUpdateWithinRequested ==
    \A u \in Users, p \in Products :
        ( /\ RanConcurrently(u)
          /\ \A c \in Committed(u) : Requested(call[c].added_items, p) > 0
          /\ StockAtLeast(u, p, Combined(u, p)) )
           => /\ lines[u][p].present
              /\ lines[u][p].quantity = QuantityBefore(u, p) + Combined(u, p)

\* C10 as amended: the same when each call read a stock of at least the
\* quantity before plus the combined requested quantity (so that no call
\* clamps the line).
NoLostUpdate ==
    \A u \in Users, p \in Products :
        ( /\ RanConcurrently(u)
          /\ \A c \in Committed(u) : Requested(call[c].added_items, p) > 0
          /\ StockAtLeast(u, p, QuantityBefore(u, p) + Combined(u, p)) )
           => /\ lines[u][p].present
              /\ lines[u][p].quantity = QuantityBefore(u, p) + Combined(u, p)

\* C10 witness: two calls made on a cart that held the line have both added
\* to it and committed.
NoLostUpdateWitness ==
    \E u \in Users, p \in Products :
        /\ RanConcurrently(u)
        /\ \A c \in Committed(u) : Requested(call[c].added_items, p) > 0
        /\ QuantityBefore(u, p) > 0
        /\ StockAtLeast(u, p, QuantityBefore(u, p) + Combined(u, p))
        /\ lines[u][p].quantity = QuantityBefore(u, p) + Combined(u, p)

\* The transaction of call c is open and has written rows it has not
\* committed: the user's new cart row, or cart lines.
HasUncommittedWrites(c) ==
    /\ call[c].pc \in InTx
    /\ (call[c].txCart \/ call[c].txTouched # {})

\* A Product Search or Stock Lookup request of call c is in flight.
RequestInFlight(c) == call[c].pc \in {"search", "stock"}

\* C11 as claimed: in no state of add_to_cart is the store transaction open,
\* with writes made and not committed, while a Product Search or Stock Lookup
\* request of the call is in flight.
NoTransactionAcrossRequest ==
    \A c \in Calls : RequestInFlight(c) => ~HasUncommittedWrites(c)

\* The products only a privileged caller may see.
Restricted == {p \in Products : Catalog[p].is_vip}

\* The step in which call c commits.
CommitStep(c) == call[c].pc = "loop" /\ call'[c].pc = "summary"

\* C12: visibility fence.  A call made with user_is_vip = false never holds
\* a resolved restricted product, no step of it writes a line of a restricted
\* product in its transaction, and its commit leaves the committed lines of
\* restricted products as they were.
VisibilityFence ==
    /\ [](\A c \in Calls :
            (call[c].product.found /\ call[c].product.product_id \in Restricted)
               => call[c].vip)
    /\ [][\A c \in Calls :
            (call[c].pc # "idle" /\ ~call[c].vip) =>
               \A p \in Restricted :
                  /\ call'[c].pc # "idle" =>
                        /\ call'[c].txLines[p] = call[c].txLines[p]
                        /\ (p \in call'[c].txTouched) = (p \in call[c].txTouched)
                  /\ CommitStep(c) =>
                        lines'[call[c].user][p] = lines[call[c].user][p]]_vars

\* C12 witness: a call that asked for the restricted product by its exact
\* name has returned "Product not found" for it (so it was not privileged),
\* and the cart is as it was.
VisibilityFenceWitness ==
    /\ AddReturned
    /\ Len(last.result.failed_items) = 1
    /\ Len(last.result.added_items) = 0
    /\ ErrorText(last.result.failed_items[1]) = "Product not found"
    /\ last.result.failed_items[1].product_name = "Caviar"
    /\ CartOf(last.user) = [last.before EXCEPT !.cart = TRUE]

\* The stock lookups in progress or just made: those of the frames and those
\* of the call that returned last.
ReadsSeen == {call[c].reads : c \in Calls} \cup {last.reads}

\* The number of entries of seq that satisfy Test.
CountOf(seq, Test(_)) == Cardinality({i \in Indices(seq) : Test(seq[i])})

\* C13 as claimed: a failed stock lookup yields 0 and is not raised to the
\* caller.  Every failed lookup hands back 0; add_to_cart that returned has,
\* for each product, an "Insufficient stock" entry with available_stock 0 for
\* every failed lookup of it; update_cart_item whose lookup failed returns
\* the insufficient-stock failure with 0 and leaves the store alone; get_cart
\* lists each row whose lookup failed with available_stock 0.
StockFailureYieldsZero ==
    /\ \A reads \in ReadsSeen : \A i \in Indices(reads) :
          reads[i].failure => reads[i].available_stock = 0
    /\ AddReturned =>
          \A p \in Products :
             LET Failed(r) == r.product_id = p /\ r.failure
                 Rejected(e) ==
                     /\ ErrorText(e) = "Insufficient stock (only"
                     /\ e.product_id = p
                     /\ e.available_stock = 0
             IN CountOf(last.result.failed_items, Rejected)
                   >= CountOf(last.reads, Failed)
    /\ (last.op = "update_cart_item" /\ last.reads # <<>>
           /\ last.reads[1].failure) =>
          /\ last.result =
                [success |-> FALSE,
                 error |-> <<"Insufficient stock (only", 0, "available)">>,
                 available_stock |-> 0]
          /\ CartOf(last.user) = last.before
    /\ last.op = "get_cart" =>
          /\ Len(last.result.items) = Len(last.reads)
          /\ \A i \in Indices(last.reads) :
                last.reads[i].failure =>
                   last.result.items[i].available_stock = 0

\* The category each product of the catalog belongs to.
CategoryOf == [tomato |-> "Vegetables", caviar |-> "Seafood"]

\* C14 as claimed: a line that add_to_cart has created stores a unit price
\* within the price range of the product's category.
PriceFromCategoryRange ==
    AddReturned =>
        \A p \in Products :
            (~last.before.lines[p].present /\ lines[last.user][p].present) =>
               LET range == PRICE_RANGES[CategoryOf[p]] IN
               /\ range[1] <= lines[last.user][p].unit_price
               /\ lines[last.user][p].unit_price <= range[2]

\* update_cart_item has returned (it did not raise).
UpdateReturned ==
    /\ last.op = "update_cart_item"
    /\ ~("raised" \in DOMAIN last.result)

\* The stock quantity update_cart_item read, if it looked up.
UpdateStockRead == last.reads[1].available_stock

\* update_cart_item was asked for more than the stock it read: it returns the
\* insufficient-stock failure with that stock and the store is as it was.
ExcessRejected ==
    (UpdateReturned /\ last.reads # <<>> /\ last.quantity > UpdateStockRead) =>
       /\ last.result =
             [success |-> FALSE,
              error |-> <<"Insufficient stock (only", UpdateStockRead,
                          "available)">>,
              available_stock |-> UpdateStockRead]
       /\ CartOf(last.user) = last.before

\* After a successful update_cart_item with quantity > 0 the line holds at
\* most the stock the call read.
UpdatedWithinStock ==
    (UpdateReturned /\ last.result.success /\ last.quantity > 0) =>
       /\ last.reads # <<>>
       /\ lines[last.user][last.product_id].quantity <= UpdateStockRead

\* C15 as claimed: too large a quantity is rejected with the stock read, a
\* negative one (whatever the product id) with "Quantity cannot be negative",
\* both leaving the store unchanged, and a successful update leaves at most
\* the stock read.
UpdateChecksQuantity ==
    /\ ExcessRejected
    /\ (UpdateReturned /\ last.quantity < 0) =>
          /\ last.result = [success |-> FALSE,
                            error |-> <<"Quantity cannot be negative">>]
          /\ CartOf(last.user) = last.before
    /\ UpdatedWithinStock

\* C15 as amended: the same, the negative quantity being reported for a
\* well-formed product id.
UpdateChecksQuantityOfValidId ==
    /\ ExcessRejected
    /\ (UpdateReturned /\ last.quantity < 0 /\ IsUuid(last.product_id)) =>
          /\ last.result = [success |-> FALSE,
                            error |-> <<"Quantity cannot be negative">>]
          /\ last.reads = <<>>
          /\ CartOf(last.user) = last.before
    /\ UpdatedWithinStock

\* C15 witness: update_cart_item has raised the quantity of a line to the
\* stock it read.
UpdateChecksQuantityWitness ==
    /\ UpdateReturned
    /\ last.result.success
    /\ last.before.lines[last.product_id].present
    /\ last.quantity > last.before.lines[last.product_id].quantity
    /\ lines[last.user][last.product_id].quantity = last.quantity
    /\ UpdateStockRead = last.quantity

\* C16: clear_cart reports success whether or not the user has a cart; after
\* it the user has no lines and has a cart row exactly if there was one; and
\* a second clear_cart for the same user right after it changes nothing in
\* the store and reports the same.
ClearCartIdempotent ==
    /\ [](last.op = "clear_cart" =>
            /\ last.result = [success |-> TRUE, message |-> "Cart cleared"]
            /\ \A p \in Products : ~lines[last.user][p].present
            /\ (last.user \in carts) = last.before.cart)
    /\ [][(/\ last.op = "clear_cart"
            /\ last'.op = "clear_cart"
            /\ last'.user = last.user) =>
              /\ lines' = lines
              /\ carts' = carts
              /\ last'.result = last.result]_vars

\* C16 witness: clear_cart has emptied a cart that held two lines; the cart
\* row is still there.
ClearCartWitness ==
    /\ last.op = "clear_cart"
    /\ \A p \in Products : last.before.lines[p].present
    /\ \A p \in Products : ~lines[last.user][p].present
    /\ last.user \in carts

\* The failed_items entry of an item that was added at a reduced quantity.
Clamped(e) == ErrorText(e) = "Reduced quantity to available stock ("

\* The number of items the entries of frame fr account for: one per entry,
\* a clamped item having an entry in both lists.
Settled(fr) ==
    Len(fr.added_items) + Len(fr.failed_items)
       - CountOf(fr.failed_items, Clamped)

\* The step in which call c returns its result.
ReturnStep(c) ==
    /\ call[c].pc = "summary"
    /\ call'[c].pc = "idle"
    /\ ~last'.result.raised

\* C17: every item the loop has taken is accounted for in added_items or in
\* failed_items (while an item is being looked up, every item before it);
\* every failed_items entry is a rejection or a clamp, and a clamped item is
\* in added_items too; the call returns the two lists as they are, with
\* success true exactly if failed_items is empty.
SuccessIffNoFailure ==
    /\ [](\A c \in Calls :
            LET fr == call[c] IN
            /\ fr.pc \in {"loop", "summary"} => Settled(fr) = fr.n
            /\ fr.pc \in {"search", "stock"} => Settled(fr) = fr.n - 1
            /\ CountOf(fr.failed_items, Clamped) <= Len(fr.added_items)
            /\ \A i \in Indices(fr.failed_items) :
                  \/ ErrorText(fr.failed_items[i]) \in RejectionTexts
                  \/ Clamped(fr.failed_items[i]))
    /\ [][\A c \in Calls :
            ReturnStep(c) =>
               /\ last'.result.added_items = call[c].added_items
               /\ last'.result.failed_items = call[c].failed_items
               /\ last'.result.success = (call[c].failed_items = <<>>)]_vars
    /\ [](AddReturned =>
            (last.result.success <=> Len(last.result.failed_items) = 0))

\* C17 witness: a call of two items has returned, one added unclamped and
\* one rejected, with success false.
SuccessIffNoFailureWitness ==
    /\ AddReturned
    /\ Len(last.result.added_items) = 1
    /\ Len(last.result.failed_items) = 1
    /\ ~Clamped(last.result.failed_items[1])
    /\ ~last.result.success

\* C18: update_cart_item and remove_from_cart handed a malformed product id
\* return "Invalid product ID" whatever the quantity, look up no stock, and
\* the user's cart row and lines are as they were.
MalformedIdRejected ==
    (last.op \in {"update_cart_item", "remove_from_cart"}
        /\ ~IsUuid(last.product_id)) =>
       /\ last.result = [success |-> FALSE, error |-> <<"Invalid product ID">>]
       /\ last.reads = <<>>
       /\ CartOf(last.user) = last.before

\* C18 witness: update_cart_item with a malformed product id and a positive
\* quantity has returned for a user whose cart holds a line.
MalformedIdWitness ==
    /\ last.op = "update_cart_item"
    /\ ~IsUuid(last.product_id)
    /\ last.quantity > 0
    /\ \E p \in Products : lines[last.user][p].present
    /\ ~last.result.success

\* C19: re-check and clamp.  When the stock answer lets an item through
\* (its quantity is at most the stock read), the line the transaction then
\* holds has the quantity it had (committed, or written by an earlier item
\* of the call) plus the requested one if that is within the stock read, and
\* exactly the stock read otherwise; in the second case the item is appended
\* to failed_items with the "Reduced quantity to available stock" text and the
\* stock read, and in both cases to added_items.  So the line is at most the
\* stock read.
ClampToStock ==
    [][\A c \in Calls :
          (StockStep(c) /\ call[c].item.quantity <= StockRead(c)) =>
             LET f == call[c]
                 g == call'[c]
                 pid == f.product.product_id
                 total == TxView(f, pid).quantity + f.item.quantity
                 added == g.added_items[Len(g.added_items)]
                 failed == g.failed_items[Len(g.failed_items)]
             IN
             /\ pid \in g.txTouched
             /\ g.txLines[pid].present
             /\ g.txLines[pid].quantity <= StockRead(c)
             /\ Len(g.added_items) = Len(f.added_items) + 1
             /\ added.product_id = pid
             /\ added.quantity = f.item.quantity
             /\ IF total > StockRead(c)
                THEN /\ g.txLines[pid].quantity = StockRead(c)
                     /\ Len(g.failed_items) = Len(f.failed_items) + 1
                     /\ Clamped(failed)
                     /\ failed.product_id = pid
                     /\ failed.available_stock = StockRead(c)
                     /\ failed.requested_quantity = f.item.quantity
                ELSE /\ g.txLines[pid].quantity = total
                     /\ g.failed_items = f.failed_items]_vars

\* C19 witness: a call that asked for the same product twice has returned;
\* the second request was clamped, and the line holds the stock read.
ClampToStockWitness ==
    /\ AddReturned
    /\ Len(last.result.added_items) = 2
    /\ Len(last.result.failed_items) = 1
    /\ Clamped(last.result.failed_items[1])
    /\ LET e == last.result.failed_items[1] IN
       /\ ~last.before.lines[e.product_id].present
       /\ \A i \in Indices(last.result.added_items) :
             last.result.added_items[i].product_id = e.product_id
       /\ lines[last.user][e.product_id].quantity = e.available_stock
       /\ Requested(last.result.added_items, e.product_id) > e.available_stock

\* The step is made on behalf of user u: it is the commit of an add_to_cart
\* call of u or, if it is no commit, an update_cart_item, remove_from_cart or
\* clear_cart call for u.
ActsFor(u) ==
    IF \E c \in Calls : CommitStep(c)
    THEN \E c \in Calls : CommitStep(c) /\ call[c].user = u
    ELSE /\ last'.op \in {"update_cart_item", "remove_from_cart", "clear_cart"}
         /\ last'.user = u

\* C20: user isolation.  A step changes the cart row or the lines of a user
\* only if it is made on behalf of that user; a cart row once committed stays;
\* and no two open transactions hold the cart row of one user, a transaction
\* inserting the row only when the user has none.
UserIsolation ==
    /\ [][/\ carts \subseteq carts'
          /\ \A u \in Users :
                (lines'[u] # lines[u] \/ (u \in carts') # (u \in carts))
                   => ActsFor(u)]_vars
    /\ [](\A c \in Calls :
            call[c].pc \in InTx =>
               /\ call[c].txCart => call[c].user \notin carts
               /\ \A d \in Calls \ {c} : ~HoldsCart(d, call[c].user))

\* C20 witness: both users have a cart with a line, and a call for one of
\* them has just changed that user's line.
UserIsolationWitness ==
    /\ carts = Users
    /\ \A u \in Users : lines[u].tomato.present
    /\ last.op = "update_cart_item"
    /\ last.result.success
    /\ lines[last.user].tomato.quantity # last.before.lines.tomato.quantity

\* update_cart_item has created nothing: the user has a cart row exactly if
\* there was one, and no line that was not there before.
UpdateCreatedNothing ==
    /\ (last.user \in carts) = last.before.cart
    /\ \A p \in Products :
          lines[last.user][p].present => last.before.lines[p].present

\* update_cart_item for a product with no line, with a quantity above 0 and
\* within the stock read, reports success and leaves the store as it was.
MissingLineUntouched ==
    (/\ UpdateReturned
     /\ last.before.cart
     /\ IsUuid(last.product_id)
     /\ last.quantity > 0
     /\ last.reads # <<>>
     /\ last.quantity <= UpdateStockRead
     /\ ~last.before.lines[last.product_id].present) =>
       /\ last.result = [success |-> TRUE]
       /\ CartOf(last.user) = last.before

\* The call got past the checks update_cart_item makes before it opens the
\* store: well-formed product id, quantity not negative and, if above 0, at
\* most the stock read.
UpdateReachedStore ==
    /\ UpdateReturned
    /\ IsUuid(last.product_id)
    /\ last.quantity >= 0
    /\ last.quantity > 0 =>
          (last.reads # <<>> /\ last.quantity <= UpdateStockRead)

\* C21 as claimed: update_cart_item creates no cart and no line; for a user
\* with no cart it returns "Cart not found", whatever it was handed, and
\* writes nothing; for a product with no line a call within stock reports
\* success and leaves the store unchanged.
UpdateNeverCreates ==
    last.op = "update_cart_item" =>
       /\ UpdateCreatedNothing
       /\ (UpdateReturned /\ ~last.before.cart) =>
             /\ last.result = [success |-> FALSE,
                               error |-> <<"Cart not found">>]
             /\ CartOf(last.user) = last.before
       /\ MissingLineUntouched

\* C21 as amended: the same, "Cart not found" being what a user with no cart
\* gets when the call has got past the checks made before the store is
\* opened.
UpdateNeverCreatesPastChecks ==
    last.op = "update_cart_item" =>
       /\ UpdateCreatedNothing
       /\ (UpdateReachedStore /\ ~last.before.cart) =>
             /\ last.result = [success |-> FALSE,
                               error |-> <<"Cart not found">>]
             /\ CartOf(last.user) = last.before
       /\ MissingLineUntouched

\* C21 witness: update_cart_item with a quantity within stock has reported
\* success for a product the user's cart, which holds another line, has no
\* line of; the cart is as it was.
UpdateNeverCreatesWitness ==
    /\ UpdateReturned
    /\ last.result.success
    /\ last.quantity > 0
    /\ last.before.cart
    /\ ~last.before.lines[last.product_id].present
    /\ \E p \in Products : last.before.lines[p].present
    /\ CartOf(last.user) = last.before


====
